---- MODULE Spec2Model ----
(***************************************************************************)
(* Model of parasite (src/src/main.rs): the App state, the caption parser, *)
(* the query filter, the context flattening and the timestamp editor,      *)
(* driven by the key commands of run_app.                                  *)
(*                                                                         *)
(* Strings are sequences of one-character strings.  Durations are natural  *)
(* numbers of milliseconds.  Option<T> is a sequence of length 0 (None) or *)
(* 1 (Some(v)).  Vec indices are 0-based as in the source; element i of a  *)
(* Vec v is v[i + 1].                                                      *)
(***************************************************************************)
EXTENDS Integers, Sequences, FiniteSets, TLC

VARIABLES
    vtt_files,          \* App.vtt_files, each file as its sequence of lines
    search_query,       \* App.search_query
    all_results,        \* App.all_results
    filtered_results,   \* App.filtered_results
    flat_results,       \* App.flat_results
    selected_idx,       \* App.selected_idx
    status_message,     \* App.status_message (the kind of message shown)
    context_lines,      \* App.context_lines
    running             \* whether the event loop of run_app is still running

vars == <<vtt_files, search_query, all_results, filtered_results, flat_results,
          selected_idx, status_message, context_lines, running>>

(***************************************************************************)
(* Program constants                                                       *)
(***************************************************************************)
NORMAL_TIME_ADJUST == 100
FINE_TIME_ADJUST == 25
\* The minimum gap between start and end the editor keeps (ms).
MIN_GAP_MS == 10
\* The ceiling added to the current end on the last line (ms).
LAST_LINE_CEILING_MS == 30000
\* MAX_CONTEXT_LINES one too large.
MAX_CONTEXT_LINES_six == 3 + 3
\* The largest context depth the '+' key reaches.
MAX_CONTEXT_LINES == 5
\* The number of context entries load_all_results captures on each side.
MAX_CONTEXT_CAPTURE == 5
\* The tolerance of is_same_segment (ms).
SAME_SEGMENT_TOLERANCE_MS == 10

(***************************************************************************)
(* Bounds of the model                                                     *)
(***************************************************************************)
\* Longest query the operator types while also editing timestamps.
MaxQueryLen == 2
\* Longest query the operator types in a session without timestamp edits.
MaxLongQueryLen == 3
\* An end time is not pushed further than this beyond its original (ms).
MaxStretch == 25
\* Longest query typed on the "hello" file.
MaxHelloLen == 5
\* How far the last line's end is pushed beyond its original in the session
\* that moves ends only (ms).
MaxCeilingStretch == 30200

None == <<>>
Some(v) == <<v>>
IsSome(o) == Len(o) = 1
Unwrap(o) == o[1]

(***************************************************************************)
(* str: the string operations of the standard library the program uses     *)
(***************************************************************************)
Whitespace == {" ", "\t"}

UpperChars == <<"A","B","C","D","E","F","G","H","I","J","K","L","M",
                "N","O","P","Q","R","S","T","U","V","W","X","Y","Z">>
LowerChars == <<"a","b","c","d","e","f","g","h","i","j","k","l","m",
                "n","o","p","q","r","s","t","u","v","w","x","y","z">>
Digits == <<"0","1","2","3","4","5","6","7","8","9">>

char_to_lowercase(c) ==
    IF \E i \in 1..Len(UpperChars) : UpperChars[i] = c
    THEN LowerChars[CHOOSE i \in 1..Len(UpperChars) : UpperChars[i] = c]
    ELSE c

to_lowercase(s) == [i \in 1..Len(s) |-> char_to_lowercase(s[i])]

\* The byte offsets (0-based) at which pat occurs in s.
Occurrences(s, pat) ==
    {i \in 0..(Len(s) - Len(pat)) : SubSeq(s, i + 1, i + Len(pat)) = pat}

contains(s, pat) == Occurrences(s, pat) # {}

Min(S) == CHOOSE x \in S : \A y \in S : x <= y
Max(S) == CHOOSE x \in S : \A y \in S : y <= x

trim_start(s) ==
    LET keep == {i \in 1..Len(s) : s[i] \notin Whitespace}
    IN  IF keep = {} THEN <<>> ELSE SubSeq(s, Min(keep), Len(s))

trim_end(s) ==
    LET keep == {i \in 1..Len(s) : s[i] \notin Whitespace}
    IN  IF keep = {} THEN <<>> ELSE SubSeq(s, 1, Max(keep))

trim(s) == trim_end(trim_start(s))

is_empty(s) == Len(s) = 0

RECURSIVE split(_, _)
\* str::split with a non-empty pattern: the pieces between the
\* non-overlapping occurrences of pat, scanning left to right.
split(s, pat) ==
    IF Occurrences(s, pat) = {}
    THEN <<s>>
    ELSE LET i == Min(Occurrences(s, pat))
         IN  <<SubSeq(s, 1, i)>> \o split(SubSeq(s, i + Len(pat) + 1, Len(s)), pat)

RECURSIVE split_whitespace(_)
\* str::split_whitespace: the maximal runs of non-whitespace characters.
split_whitespace(s) ==
    LET t == trim_start(s)
    IN  IF t = <<>>
        THEN <<>>
        ELSE LET ws == {i \in 1..Len(t) : t[i] \in Whitespace}
                 n  == IF ws = {} THEN Len(t) ELSE Min(ws) - 1
             IN  <<SubSeq(t, 1, n)>> \o split_whitespace(SubSeq(t, n + 1, Len(t)))

DigitValue(c) == (CHOOSE i \in 1..Len(Digits) : Digits[i] = c) - 1

IsDigit(c) == \E i \in 1..Len(Digits) : Digits[i] = c

RECURSIVE DecimalValue(_)
DecimalValue(s) ==
    IF s = <<>> THEN 0
    ELSE 10 * DecimalValue(SubSeq(s, 1, Len(s) - 1)) + DigitValue(s[Len(s)])

\* str::parse::<u64>: an optional '+' and then one or more decimal digits.
parse_u64(s) ==
    LET body == IF s # <<>> /\ s[1] = "+" THEN SubSeq(s, 2, Len(s)) ELSE s
    IN  IF body # <<>> /\ \A i \in 1..Len(body) : IsDigit(body[i])
        THEN Some(DecimalValue(body))
        ELSE None

(***************************************************************************)
(* parse_timestamp, parse_time_range                                       *)
(***************************************************************************)
parse_timestamp(timestamp) ==
    LET parts == split(timestamp, <<":">>)
    IN  IF Len(parts) # 3 THEN None
        ELSE
        LET hours == parse_u64(trim(parts[1]))
            minutes == parse_u64(trim(parts[2]))
            seconds_parts == split(parts[3], <<".">>)
        IN  IF ~IsSome(hours) \/ ~IsSome(minutes) \/ Len(seconds_parts) # 2
            THEN None
            ELSE
            LET seconds == parse_u64(trim(seconds_parts[1]))
                milliseconds == parse_u64(trim(seconds_parts[2]))
            IN  IF ~IsSome(seconds) \/ ~IsSome(milliseconds)
                THEN None
                ELSE Some(Unwrap(hours) * 3600000 + Unwrap(minutes) * 60000
                          + Unwrap(seconds) * 1000 + Unwrap(milliseconds))

Arrow == <<"-", "-", ">">>

\* Some(<<start, end>>) or None
parse_time_range(line) ==
    LET parts == split(line, Arrow)
    IN  IF Len(parts) # 2 THEN None
        ELSE
        LET start == parse_timestamp(trim(parts[1]))
            end == parse_timestamp(trim(parts[2]))
        IN  IF ~IsSome(start) \/ ~IsSome(end) THEN None
            ELSE Some(<<Unwrap(start), Unwrap(end)>>)

\* resolve_timing falling back to the nearest earlier timing line that parses.
resolve_timing_fallback(lines, i) ==
    LET cands == {j \in 0..(i - 1) : /\ contains(lines[j + 1], Arrow)
                                     /\ IsSome(parse_time_range(lines[j + 1]))}
    IN  IF cands = {} THEN None ELSE parse_time_range(lines[Max(cands) + 1])

(***************************************************************************)
(* App::load_all_results                                                   *)
(***************************************************************************)
\* The time range of the nearest line before line i that contains "-->",
\* if there is one and it parses.
resolve_timing(lines, i) ==
    LET cands == {j \in 0..(i - 1) : contains(lines[j + 1], Arrow)}
    IN  IF cands = {} THEN None ELSE parse_time_range(lines[Max(cands) + 1])

\* scan_before looking at the five lines before the text line and no further.
scan_before_windowed(lines, before_idx, context_before) ==
    LET found == SelectSeq([k \in 1..Len(lines) |-> k - 1], LAMBDA j :
                     /\ j <= before_idx /\ j > before_idx - MAX_CONTEXT_CAPTURE
                     /\ ~contains(trim(lines[j + 1]), Arrow)
                     /\ ~is_empty(trim(lines[j + 1]))
                     /\ IsSome(resolve_timing(lines, j)))
    IN  [k \in 1..Len(found) |->
            <<trim(lines[found[k] + 1]),
              Unwrap(resolve_timing(lines, found[k]))[1],
              Unwrap(resolve_timing(lines, found[k]))[2]>>]

RECURSIVE scan_before(_, _, _)
\* The loop "while before_idx >= 0 && context_before.len() < 5".
scan_before(lines, before_idx, context_before) ==
    IF before_idx < 0 \/ Len(context_before) >= MAX_CONTEXT_CAPTURE
    THEN context_before
    ELSE LET before_line == trim(lines[before_idx + 1])
             timing == resolve_timing(lines, before_idx)
         IN  scan_before(lines, before_idx - 1,
                 IF ~contains(before_line, Arrow) /\ ~is_empty(before_line)
                    /\ IsSome(timing)
                 THEN << <<before_line, Unwrap(timing)[1], Unwrap(timing)[2]>> >>
                      \o context_before
                 ELSE context_before)

RECURSIVE scan_after(_, _, _)
\* The loop "while after_idx < lines.len() && context_after.len() < 5".
scan_after(lines, after_idx, context_after) ==
    IF after_idx >= Len(lines) \/ Len(context_after) >= MAX_CONTEXT_CAPTURE
    THEN context_after
    ELSE LET after_line == trim(lines[after_idx + 1])
             timing == resolve_timing(lines, after_idx)
         IN  scan_after(lines, after_idx + 1,
                 IF ~contains(after_line, Arrow) /\ ~is_empty(after_line)
                    /\ IsSome(timing)
                 THEN Append(context_after,
                             <<after_line, Unwrap(timing)[1], Unwrap(timing)[2]>>)
                 ELSE context_after)

\* load_file making a segment only of the text line that directly follows
\* a timing line: one segment per block.
load_file_per_block(file_path, lines, i) ==
    LET first_lines ==
            SelectSeq([k \in 1..Len(lines) |-> k - 1], LAMBDA j :
                /\ j >= i /\ j > 0
                /\ ~contains(lines[j + 1], Arrow)
                /\ ~is_empty(trim(lines[j + 1]))
                /\ contains(lines[j], Arrow)
                /\ IsSome(resolve_timing(lines, j)))
    IN  [k \in 1..Len(first_lines) |->
            [file_path |-> file_path,
             text |-> trim(lines[first_lines[k] + 1]),
             start_time |-> Unwrap(resolve_timing(lines, first_lines[k]))[1],
             end_time |-> Unwrap(resolve_timing(lines, first_lines[k]))[2],
             context_before |-> scan_before(lines, first_lines[k] - 1, <<>>),
             context_after |-> scan_after(lines, first_lines[k] + 1, <<>>)]]

RECURSIVE load_file(_, _, _)
\* The loop "for i in 0..lines.len()" over one file, from line i on.
load_file(file_path, lines, i) ==
    IF i >= Len(lines) THEN <<>>
    ELSE LET timing == resolve_timing(lines, i)
             here ==
                 IF i > 0 /\ ~contains(lines[i + 1], Arrow)
                    /\ ~is_empty(trim(lines[i + 1])) /\ IsSome(timing)
                 THEN << [file_path |-> file_path,
                          text |-> trim(lines[i + 1]),
                          start_time |-> Unwrap(timing)[1],
                          end_time |-> Unwrap(timing)[2],
                          context_before |-> scan_before(lines, i - 1, <<>>),
                          context_after |-> scan_after(lines, i + 1, <<>>)] >>
                 ELSE <<>>
         IN  here \o load_file(file_path, lines, i + 1)

RECURSIVE load_files(_, _)
load_files(files, n) ==
    IF n > Len(files) THEN <<>>
    ELSE load_file(n, files[n], 0) \o load_files(files, n + 1)

load_all_results(files) == load_files(files, 1)

(***************************************************************************)
(* App::filter_results (the filter itself), App::is_same_segment,          *)
(* App::flatten_results                                                    *)
(***************************************************************************)
\* matches_query with any search word sufficing, and the words not lowercased.
matches_query_any(query, text) ==
    \E w \in 1..Len(split_whitespace(query)) :
        contains(to_lowercase(text), split_whitespace(query)[w])

\* The closure of the filter: every search word is in the lowercased text.
matches_query(query, text) ==
    LET search_words == split_whitespace(query)
        text_lower == to_lowercase(text)
    IN  \A w \in 1..Len(search_words) :
            contains(text_lower, to_lowercase(search_words[w]))

RECURSIVE Reverse(_)
Reverse(seq) == IF seq = <<>> THEN <<>> ELSE Append(Reverse(Tail(seq)), Head(seq))

\* filter collecting the matches in reverse order.
filter_reversed(query, results) ==
    Reverse(SelectSeq(results, LAMBDA result : matches_query(query, result.text)))

\* filter leaving out the segments whose displayed line is currently edited.
filter_excluding_edited(query, results) ==
    IF is_empty(query)
    THEN results
    ELSE SelectSeq(results, LAMBDA result :
             /\ matches_query(query, result.text)
             /\ ~\E i \in 1..Len(flat_results) :
                    /\ flat_results[i].is_match
                    /\ flat_results[i].text = result.text
                    /\ \/ flat_results[i].start_time # flat_results[i].original_start
                       \/ flat_results[i].end_time # flat_results[i].original_end)

filter(query, results) ==
    IF is_empty(query)
    THEN results
    ELSE SelectSeq(results, LAMBDA result : matches_query(query, result.text))

AbsDiff(a, b) == IF a > b THEN a - b ELSE b - a

\* is_same_segment comparing the start of the one with the end of the other.
is_same_segment_crossed(text1, start1, end1, text2, start2, end2) ==
    IF text1 # text2 THEN FALSE
    ELSE /\ AbsDiff(start1, end2) < SAME_SEGMENT_TOLERANCE_MS
         /\ AbsDiff(end1, start2) < SAME_SEGMENT_TOLERANCE_MS

is_same_segment(text1, start1, end1, text2, start2, end2) ==
    IF text1 # text2 THEN FALSE
    ELSE /\ AbsDiff(start1, start2) < SAME_SEGMENT_TOLERANCE_MS
         /\ AbsDiff(end1, end2) < SAME_SEGMENT_TOLERANCE_MS

\* U+2191 and U+2193, the markers of context lines.
UpArrow == "^"
DownArrow == "v"

\* is_also_match comparing the context text as displayed, with its marker.
is_also_match_marked(filtered, ctx) ==
    \E m \in 1..Len(filtered) :
        is_same_segment(filtered[m].text, filtered[m].start_time, filtered[m].end_time,
                        <<UpArrow, " ">> \o ctx[1], ctx[2], ctx[3])

is_also_match(filtered, ctx) ==
    \E m \in 1..Len(filtered) :
        is_same_segment(filtered[m].text, filtered[m].start_time, filtered[m].end_time,
                        ctx[1], ctx[2], ctx[3])

ContextLine(marker, file_path, ctx) ==
    [text |-> <<marker, " ">> \o ctx[1],
     file_path |-> file_path,
     start_time |-> ctx[2],
     end_time |-> ctx[3],
     is_match |-> FALSE,
     original_start |-> ctx[2],
     original_end |-> ctx[3]]

\* MatchLine taking the times to reset to from zero, not from the segment.
MatchLine_from_zero(result) ==
    [text |-> result.text,
     file_path |-> result.file_path,
     start_time |-> result.start_time,
     end_time |-> result.end_time,
     is_match |-> TRUE,
     original_start |-> 0,
     original_end |-> result.end_time - result.start_time]

MatchLine(result) ==
    [text |-> result.text,
     file_path |-> result.file_path,
     start_time |-> result.start_time,
     end_time |-> result.end_time,
     is_match |-> TRUE,
     original_start |-> result.start_time,
     original_end |-> result.end_time]

\* lines_before leaving out, besides the matches, every entry that is in
\* the context after some filtered segment.
lines_before_deduplicated(filtered, result, depth, i) ==
    LET n == Len(result.context_before)
        taken == [j \in 1..Min({depth, n}) |-> result.context_before[n - j + 1]]
        kept == SelectSeq(taken, LAMBDA ctx :
                    /\ ~is_also_match(filtered, ctx)
                    /\ ~\E m \in 1..Len(filtered) :
                           \E c \in 1..Len(filtered[m].context_after) :
                               filtered[m].context_after[c] = ctx)
    IN  [j \in 1..Len(kept) |-> ContextLine(UpArrow, result.file_path, kept[j])]

RECURSIVE lines_before(_, _, _, _)
\* context_before.iter().rev().take(context_lines).enumerate(), from item i on.
lines_before(filtered, result, depth, i) ==
    LET n == Len(result.context_before)
    IN  IF i >= depth \/ i >= n THEN <<>>
        ELSE LET ctx == result.context_before[n - i]
                 ctx_idx == n - 1 - i
             IN  (IF ~is_also_match(filtered, ctx) /\ ctx_idx < n
                  THEN <<ContextLine(UpArrow, result.file_path, ctx)>>
                  ELSE <<>>)
                 \o lines_before(filtered, result, depth, i + 1)

\* lines_after showing only the entry at distance depth, not the nearer ones.
lines_after_farthest(filtered, result, depth, i) ==
    IF depth > Len(result.context_after)
       \/ is_also_match(filtered, result.context_after[depth])
    THEN <<>>
    ELSE <<ContextLine(DownArrow, result.file_path, result.context_after[depth])>>

RECURSIVE lines_after(_, _, _, _)
\* context_after.iter().take(context_lines), from item i on.
lines_after(filtered, result, depth, i) ==
    IF i >= depth \/ i >= Len(result.context_after) THEN <<>>
    ELSE LET ctx == result.context_after[i + 1]
         IN  (IF ~is_also_match(filtered, ctx)
              THEN <<ContextLine(DownArrow, result.file_path, ctx)>>
              ELSE <<>>)
             \o lines_after(filtered, result, depth, i + 1)

RECURSIVE flatten_from(_, _, _)
flatten_from(filtered, depth, r) ==
    IF r > Len(filtered) THEN <<>>
    ELSE (IF depth > 0 THEN lines_before(filtered, filtered[r], depth, 0) ELSE <<>>)
         \o <<MatchLine(filtered[r])>>
         \o (IF depth > 0 THEN lines_after(filtered, filtered[r], depth, 0) ELSE <<>>)
         \o flatten_from(filtered, depth, r + 1)

\* flatten_results carrying the edited times of the lines on display over to
\* the lines of the new list that have the same text and original range.
flatten_results_keeping_edits(filtered, depth) ==
    LET fresh == flatten_from(filtered, depth, 1)
        Same(old, new) == /\ old.text = new.text
                          /\ old.original_start = new.original_start
                          /\ old.original_end = new.original_end
    IN  IF depth = 0 THEN fresh
        ELSE [i \in 1..Len(fresh) |->
                 IF \E j \in 1..Len(flat_results) : Same(flat_results[j], fresh[i])
                 THEN flat_results[CHOOSE j \in 1..Len(flat_results) :
                                       Same(flat_results[j], fresh[i])]
                 ELSE fresh[i]]

flatten_results(filtered, depth) == flatten_from(filtered, depth, 1)

(***************************************************************************)
(* Status messages.  A message is the pair of its fixed text and the error *)
(* text formatted into it ("" when there is none); the numbers formatted   *)
(* into a message are left out.                                            *)
(***************************************************************************)
MsgLoaded == <<"Loaded samples from input_dir. Saving to output_dir.", "">>
MsgFound == <<"Found matches, total lines with context", "">>
MsgStartAtMinimum == <<"Start time already at minimum (0)", "">>
MsgStartExceedsEnd == <<"Cannot adjust: Start time would exceed end time", "">>
MsgStartAdjusted == <<"Start time adjusted", "">>
MsgEndPrecedesStart == <<"Cannot adjust: End time would precede start time", "">>
MsgEndExceedsMaximum == <<"Cannot adjust: End time would exceed maximum", "">>
MsgEndAdjusted == <<"End time adjusted", "">>
MsgReset == <<"Timestamps reset to original values.", "">>
MsgNoLineSelected == <<"No line selected", "">>
MsgContextSet == <<"Context set", "">>
MsgContextMaximum == <<"Maximum context lines reached (5)", "">>
MsgContextMinimum == <<"Context lines already at minimum (0)", "">>
MsgPreviewPlaying == <<"Preview playing", "">>
MsgSampleSaved == <<"Sample saved", "">>

(***************************************************************************)
(* App::adjust_start_time, App::adjust_end_time and the Esc arm of run_app *)
(* as functions of the fields they read; each returns the fields it may    *)
(* write.                                                                  *)
(***************************************************************************)
\* adjust_start_time with a start below 0 clamped to 0 instead of rejected.
adjust_start_time_clamped(flat, selected, message, delta_ms) ==
    IF IsSome(selected) /\ Unwrap(selected) < Len(flat)
    THEN LET line == flat[Unwrap(selected) + 1]
             new_ms == IF line.start_time + delta_ms < 0 THEN 0
                       ELSE line.start_time + delta_ms
         IN  IF line.end_time <= new_ms + MIN_GAP_MS
             THEN [flat_results |-> flat, status_message |-> MsgStartExceedsEnd]
             ELSE [flat_results |->
                       [flat EXCEPT ![Unwrap(selected) + 1].start_time = new_ms],
                   status_message |-> MsgStartAdjusted]
    ELSE [flat_results |-> flat, status_message |-> message]

\* adjust_start_time without the check against the end time.
adjust_start_time_unchecked(flat, selected, message, delta_ms) ==
    IF IsSome(selected) /\ Unwrap(selected) < Len(flat)
    THEN LET line == flat[Unwrap(selected) + 1]
         IN  IF line.start_time + delta_ms < 0
             THEN [flat_results |-> flat, status_message |-> MsgStartAtMinimum]
             ELSE [flat_results |->
                       [flat EXCEPT ![Unwrap(selected) + 1].start_time =
                                        line.start_time + delta_ms],
                   status_message |-> MsgStartAdjusted]
    ELSE [flat_results |-> flat, status_message |-> message]

adjust_start_time(flat, selected, message, delta_ms) ==
    LET same == [flat_results |-> flat, status_message |-> message]
    IN  IF ~IsSome(selected) THEN same
        ELSE
        LET idx == Unwrap(selected)
        IN  IF ~(idx < Len(flat)) THEN same
            ELSE
            LET line == flat[idx + 1]
                current_ms == line.start_time
                new_ms == current_ms + delta_ms
                end_ms == line.end_time
            IN  IF current_ms + delta_ms < 0
                THEN [same EXCEPT !.status_message = MsgStartAtMinimum]
                ELSE IF end_ms <= new_ms + MIN_GAP_MS
                THEN [same EXCEPT !.status_message = MsgStartExceedsEnd]
                ELSE [flat_results |-> [flat EXCEPT ![idx + 1].start_time = new_ms],
                      status_message |-> MsgStartAdjusted]

\* max_end_ms_of bounded by the next line's end instead of its start.
max_end_ms_of_next_end(flat, idx) ==
    IF idx < Len(flat) - 1
    THEN flat[idx + 2].end_time
    ELSE flat[idx + 1].end_time + LAST_LINE_CEILING_MS

\* max_end_ms_of with a last-line ceiling fixed at the original end + 30 s.
max_end_ms_of_fixed_ceiling(flat, idx) ==
    IF idx < Len(flat) - 1
    THEN flat[idx + 2].start_time
    ELSE flat[idx + 1].original_end + LAST_LINE_CEILING_MS

\* max_end_ms of adjust_end_time for line idx of flat.
max_end_ms_of(flat, idx) ==
    IF idx < Len(flat) - 1
    THEN flat[idx + 2].start_time
    ELSE flat[idx + 1].end_time + LAST_LINE_CEILING_MS

\* adjust_end_time that also moves the start of the next line to the new end.
adjust_end_time_cascading(flat, selected, message, delta_ms) ==
    IF IsSome(selected) /\ Unwrap(selected) < Len(flat)
    THEN LET idx == Unwrap(selected)
             line == flat[idx + 1]
             new_ms == line.end_time + delta_ms
         IN  IF new_ms < line.start_time + MIN_GAP_MS
             THEN [flat_results |-> flat, status_message |-> MsgEndPrecedesStart]
             ELSE IF new_ms > max_end_ms_of(flat, idx)
             THEN [flat_results |-> flat, status_message |-> MsgEndExceedsMaximum]
             ELSE [flat_results |->
                       [i \in 1..Len(flat) |->
                           IF i = idx + 1 THEN [flat[i] EXCEPT !.end_time = new_ms]
                           ELSE IF i = idx + 2 THEN [flat[i] EXCEPT !.start_time = new_ms]
                           ELSE flat[i]],
                   status_message |-> MsgEndAdjusted]
    ELSE [flat_results |-> flat, status_message |-> message]

\* adjust_end_time with the maximum checked only when the end is increased.
adjust_end_time_increase_only(flat, selected, message, delta_ms) ==
    IF IsSome(selected) /\ Unwrap(selected) < Len(flat)
    THEN LET idx == Unwrap(selected)
             line == flat[idx + 1]
             new_ms == line.end_time + delta_ms
         IN  IF new_ms < line.start_time + MIN_GAP_MS
             THEN [flat_results |-> flat, status_message |-> MsgEndPrecedesStart]
             ELSE IF delta_ms > 0 /\ new_ms > max_end_ms_of(flat, idx)
             THEN [flat_results |-> flat, status_message |-> MsgEndExceedsMaximum]
             ELSE [flat_results |-> [flat EXCEPT ![idx + 1].end_time = new_ms],
                   status_message |-> MsgEndAdjusted]
    ELSE [flat_results |-> flat, status_message |-> message]

\* adjust_end_time without the check against the start time.
adjust_end_time_unchecked(flat, selected, message, delta_ms) ==
    IF IsSome(selected) /\ Unwrap(selected) < Len(flat)
    THEN LET idx == Unwrap(selected)
             line == flat[idx + 1]
         IN  IF line.end_time + delta_ms > max_end_ms_of(flat, idx)
             THEN [flat_results |-> flat, status_message |-> MsgEndExceedsMaximum]
             ELSE [flat_results |->
                       [flat EXCEPT ![idx + 1].end_time =
                                        Max({0, line.end_time + delta_ms})],
                   status_message |-> MsgEndAdjusted]
    ELSE [flat_results |-> flat, status_message |-> message]

adjust_end_time(flat, selected, message, delta_ms) ==
    LET same == [flat_results |-> flat, status_message |-> message]
    IN  IF ~IsSome(selected) THEN same
        ELSE
        LET idx == Unwrap(selected)
        IN  IF ~(idx < Len(flat)) THEN same
            ELSE
            LET line == flat[idx + 1]
                current_ms == line.end_time
                max_end_ms == max_end_ms_of(flat, idx)
                start_ms == line.start_time
                new_ms == Max({start_ms + MIN_GAP_MS,
                               Min({max_end_ms, current_ms + delta_ms})})
            IN  IF current_ms + delta_ms < start_ms + MIN_GAP_MS
                THEN [same EXCEPT !.status_message = MsgEndPrecedesStart]
                ELSE IF current_ms + delta_ms > max_end_ms
                THEN [same EXCEPT !.status_message = MsgEndExceedsMaximum]
                ELSE [flat_results |-> [flat EXCEPT ![idx + 1].end_time = new_ms],
                      status_message |-> MsgEndAdjusted]

\* reset_times that takes the current times as the new originals.
reset_times_rebased(flat, selected, message) ==
    IF IsSome(selected)
    THEN IF Unwrap(selected) < Len(flat)
         THEN [flat_results |->
                   [flat EXCEPT ![Unwrap(selected) + 1].original_start =
                                    flat[Unwrap(selected) + 1].start_time,
                                ![Unwrap(selected) + 1].original_end =
                                    flat[Unwrap(selected) + 1].end_time],
               status_message |-> MsgReset]
         ELSE [flat_results |-> flat, status_message |-> message]
    ELSE [flat_results |-> flat, status_message |-> MsgNoLineSelected]

reset_times(flat, selected, message) ==
    LET same == [flat_results |-> flat, status_message |-> message]
    IN  IF IsSome(selected)
        THEN LET idx == Unwrap(selected)
             IN  IF idx < Len(flat)
                 THEN [flat_results |->
                           [flat EXCEPT ![idx + 1].start_time = flat[idx + 1].original_start,
                                        ![idx + 1].end_time = flat[idx + 1].original_end],
                       status_message |-> MsgReset]
                 ELSE same
        ELSE [same EXCEPT !.status_message = MsgNoLineSelected]

(***************************************************************************)
(* App::preview_flat_line and App::extract_flat_line: the result, "Ok" or  *)
(* the text of the error.  Whether the companion audio file exists and     *)
(* whether the media tool runs are inputs from outside the program.        *)
(***************************************************************************)
ErrWavNotFound == "Audio processing error: WAV file not found"
ErrInvalidRange ==
    "Audio processing error: Invalid time range: end time must be after start time"
ErrNoLine == "Audio processing error: No line selected"
ErrTool == "media tool failed"

\* preview_flat_line without the check of the time range.
preview_flat_line_any_range(flat, idx, wav_exists, tool_ok) ==
    IF idx < Len(flat)
    THEN IF ~wav_exists THEN ErrWavNotFound
         ELSE IF ~tool_ok THEN ErrTool
         ELSE "Ok"
    ELSE ErrNoLine

preview_flat_line(flat, idx, wav_exists, tool_ok) ==
    IF idx < Len(flat)
    THEN IF ~wav_exists THEN ErrWavNotFound
         ELSE IF flat[idx + 1].end_time <= flat[idx + 1].start_time THEN ErrInvalidRange
         ELSE IF ~tool_ok THEN ErrTool
         ELSE "Ok"
    ELSE ErrNoLine

extract_flat_line(flat, idx, wav_exists, tool_ok) ==
    IF idx < Len(flat)
    THEN IF ~wav_exists THEN ErrWavNotFound
         ELSE IF flat[idx + 1].end_time <= flat[idx + 1].start_time THEN ErrInvalidRange
         ELSE IF ~tool_ok THEN ErrTool
         ELSE "Ok"
    ELSE ErrNoLine

MsgPreviewError(e) == <<"Preview error: ", e>>
MsgError(e) == <<"Error: ", e>>

(***************************************************************************)
(* The caption files the session is started on                             *)
(***************************************************************************)
Header == <<"W", "E", "B", "V", "T", "T">>
Blank == <<>>
\* "00:00:00.mmm"
Stamp(mmm) == <<"0", "0", ":", "0", "0", ":", "0", "0", ".">> \o mmm
TimingLine(from, to) == from \o <<" ">> \o Arrow \o <<" ">> \o to

\* One file: two blocks, the second with two text lines.
FileBlocks ==
    << Header,
       Blank,
       TimingLine(Stamp(<<"0", "0", "0">>), Stamp(<<"0", "3", "6">>)),
       <<"a", "b">>,
       Blank,
       TimingLine(Stamp(<<"0", "4", "0">>), Stamp(<<"0", "6", "0">>)),
       <<"B", "a">>,
       <<" ", "a", " ", "c", " ">> >>

\* A block whose range is inverted.
FileInverted ==
    << Header,
       TimingLine(Stamp(<<"1", "0", "0">>), Stamp(<<"0", "5", "0">>)),
       <<"a">> >>

\* A block shorter than the minimum gap, then a block whose timing line
\* lacks the milliseconds.
FileShort ==
    << Header,
       TimingLine(Stamp(<<"0", "3", "0">>), Stamp(<<"0", "3", "5">>)),
       <<"B">>,
       TimingLine(<<"0", "0", ":", "0", "0", ":", "0", "1">>,
                  <<"0", "0", ":", "0", "0", ":", "0", "2">>),
       <<"a", "b">> >>

\* One block long enough for the normal adjustment step.
FileLong ==
    << Header,
       TimingLine(Stamp(<<"0", "0", "0">>), Stamp(<<"1", "5", "0">>)),
       <<"a", " ", "B">> >>

Corpora == { <<FileBlocks>>, <<FileInverted, FileShort>>, <<FileLong>> }

\* The printable keys the operator presses besides the command keys.
KeyChars == {"a", "B"}
\* The same in a session without timestamp edits.
QueryKeyChars == {"a", "B", " "}

(***************************************************************************)
(* App::new                                                                *)
(***************************************************************************)
Init ==
    /\ vtt_files \in Corpora
    /\ search_query = <<>>
    /\ all_results = load_all_results(vtt_files)
    /\ filtered_results = filter(search_query, all_results)
    /\ flat_results = flatten_results(filtered_results, 0)
    /\ selected_idx = IF flat_results = <<>> THEN None ELSE Some(0)
    /\ status_message = MsgLoaded
    /\ context_lines = 0
    /\ running = TRUE

(***************************************************************************)
(* run_app: one action per arm of the match on the key pressed             *)
(***************************************************************************)
\* KeyCode::Char('q')
Quit ==
    /\ running
    /\ running' = FALSE
    /\ UNCHANGED <<vtt_files, search_query, all_results, filtered_results,
                   flat_results, selected_idx, status_message, context_lines>>

\* KeyCode::Char('+')
ContextPlus ==
    /\ running
    /\ IF context_lines < MAX_CONTEXT_LINES
       THEN /\ context_lines' = context_lines + 1
            /\ flat_results' = flatten_results(filtered_results, context_lines + 1)
            /\ status_message' = MsgContextSet
       ELSE /\ status_message' = MsgContextMaximum
            /\ UNCHANGED <<context_lines, flat_results>>
    /\ running' = running
    /\ UNCHANGED <<vtt_files, search_query, all_results, filtered_results, selected_idx>>

\* KeyCode::Char('-')
ContextMinus ==
    /\ running
    /\ IF context_lines > 0
       THEN /\ context_lines' = context_lines - 1
            /\ flat_results' = flatten_results(filtered_results, context_lines - 1)
            /\ status_message' = MsgContextSet
       ELSE /\ status_message' = MsgContextMinimum
            /\ UNCHANGED <<context_lines, flat_results>>
    /\ running' = running
    /\ UNCHANGED <<vtt_files, search_query, all_results, filtered_results, selected_idx>>

AdjustKeys == {"<", ">", "[", "]", ",", ".", "{", "}"}
adjustment_direction(key) == IF key \in {"<", ",", "[", "{"} THEN -1 ELSE 1
adjust_start(key) == key \in {"<", ",", ">", "."}
\* adjustment_value with the two presets exchanged.
adjustment_value_exchanged(key) ==
    IF key \in {"<", ">", "{", "}"} THEN NORMAL_TIME_ADJUST ELSE FINE_TIME_ADJUST

adjustment_value(key) ==
    IF key \in {"<", ">", "{", "}"} THEN FINE_TIME_ADJUST ELSE NORMAL_TIME_ADJUST

\* The arm of the eight timing adjustment keys.
AdjustTime(key) ==
    /\ running
    /\ LET delta_ms == adjustment_direction(key) * adjustment_value(key)
           r == IF adjust_start(key)
                THEN adjust_start_time(flat_results, selected_idx, status_message, delta_ms)
                ELSE adjust_end_time(flat_results, selected_idx, status_message, delta_ms)
       IN  /\ \A i \in 1..Len(r.flat_results) :
                  r.flat_results[i].end_time <= r.flat_results[i].original_end + MaxStretch
           /\ flat_results' = r.flat_results
           /\ status_message' = r.status_message
           /\ running' = running
    /\ UNCHANGED <<vtt_files, search_query, all_results, filtered_results,
                   selected_idx, context_lines>>

\* KeyCode::Esc
Esc ==
    /\ running
    /\ LET r == reset_times(flat_results, selected_idx, status_message)
       IN  /\ flat_results' = r.flat_results
           /\ status_message' = r.status_message
    /\ running' = running
    /\ UNCHANGED <<vtt_files, search_query, all_results, filtered_results,
                   selected_idx, context_lines>>

\* KeyCode::Tab
Tab(wav_exists, tool_ok) ==
    /\ running
    /\ IF IsSome(selected_idx)
       THEN LET e == preview_flat_line(flat_results, Unwrap(selected_idx),
                                       wav_exists, tool_ok)
            IN  status_message' = IF e = "Ok" THEN MsgPreviewPlaying
                                  ELSE MsgPreviewError(e)
       ELSE status_message' = MsgNoLineSelected
    /\ running' = running
    /\ UNCHANGED <<vtt_files, search_query, all_results, filtered_results,
                   flat_results, selected_idx, context_lines>>

\* App::filter_results, run on the query as just edited.
\* filter_results leaving the selection where it was.
FilterResults_keeping_selection(query) ==
    /\ filtered_results' = filter(query, all_results)
    /\ flat_results' = flatten_results(filter(query, all_results), context_lines)
    /\ selected_idx' = selected_idx
    /\ status_message' = MsgFound

FilterResults(query) ==
    /\ filtered_results' = filter(query, all_results)
    /\ flat_results' = flatten_results(filter(query, all_results), context_lines)
    /\ selected_idx' = IF flatten_results(filter(query, all_results), context_lines) = <<>>
                       THEN None ELSE Some(0)
    /\ status_message' = MsgFound

\* KeyCode::Char(c), reached by the characters no earlier arm takes.
TypeChar(c, max_len) ==
    /\ running
    /\ c \notin {"q", "+", "-"} \cup AdjustKeys
    /\ Len(search_query) < max_len
    /\ search_query' = Append(search_query, c)
    /\ FilterResults(Append(search_query, c))
    /\ running' = running
    /\ UNCHANGED <<vtt_files, all_results, context_lines>>

\* String::pop: the string without its last character, unchanged when empty.
pop(s) == IF s = <<>> THEN s ELSE SubSeq(s, 1, Len(s) - 1)

\* KeyCode::Backspace
Backspace ==
    /\ running
    /\ search_query' = pop(search_query)
    /\ FilterResults(pop(search_query))
    /\ running' = running
    /\ UNCHANGED <<vtt_files, all_results, context_lines>>

\* KeyCode::Enter
Enter(wav_exists, tool_ok) ==
    /\ running
    /\ IF IsSome(selected_idx)
       THEN LET e == extract_flat_line(flat_results, Unwrap(selected_idx),
                                       wav_exists, tool_ok)
            IN  status_message' = IF e = "Ok" THEN MsgSampleSaved ELSE MsgError(e)
       ELSE status_message' = MsgNoLineSelected
    /\ running' = running
    /\ UNCHANGED <<vtt_files, search_query, all_results, filtered_results,
                   flat_results, selected_idx, context_lines>>

\* Up going from the first line round to the last.
Up_wrapping ==
    /\ running
    /\ selected_idx' =
           IF IsSome(selected_idx)
           THEN IF Unwrap(selected_idx) > 0
                THEN Some(Unwrap(selected_idx) - 1)
                ELSE Some(Len(flat_results) - 1)
           ELSE IF flat_results # <<>> THEN Some(0) ELSE None
    /\ running' = running
    /\ UNCHANGED <<vtt_files, search_query, all_results, filtered_results,
                   flat_results, status_message, context_lines>>

\* KeyCode::Up
Up ==
    /\ running
    /\ selected_idx' =
           IF IsSome(selected_idx)
           THEN IF Unwrap(selected_idx) > 0
                THEN Some(Unwrap(selected_idx) - 1)
                ELSE selected_idx
           ELSE IF flat_results # <<>> THEN Some(0) ELSE None
    /\ running' = running
    /\ UNCHANGED <<vtt_files, search_query, all_results, filtered_results,
                   flat_results, status_message, context_lines>>

\* KeyCode::Down
Down ==
    /\ running
    /\ selected_idx' =
           IF IsSome(selected_idx)
           THEN IF Unwrap(selected_idx) + 1 < Len(flat_results)
                THEN Some(Unwrap(selected_idx) + 1)
                ELSE selected_idx
           ELSE IF flat_results # <<>> THEN Some(0) ELSE None
    /\ running' = running
    /\ UNCHANGED <<vtt_files, search_query, all_results, filtered_results,
                   flat_results, status_message, context_lines>>

Next ==
    \/ Quit
    \/ ContextPlus
    \/ ContextMinus
    \/ \E key \in AdjustKeys : AdjustTime(key)
    \/ Esc
    \/ \E wav_exists \in BOOLEAN, tool_ok \in BOOLEAN : Tab(wav_exists, tool_ok)
    \/ \E c \in KeyChars : TypeChar(c, MaxQueryLen)
    \/ Backspace
    \/ \E wav_exists \in BOOLEAN, tool_ok \in BOOLEAN : Enter(wav_exists, tool_ok)
    \/ Up
    \/ Down

Spec == Init /\ [][Next]_vars

\* A session in which the operator edits no timestamp.
NextQuery ==
    \/ Quit
    \/ ContextPlus
    \/ ContextMinus
    \/ \E wav_exists \in BOOLEAN, tool_ok \in BOOLEAN : Tab(wav_exists, tool_ok)
    \/ \E c \in QueryKeyChars : TypeChar(c, MaxLongQueryLen)
    \/ Backspace
    \/ \E wav_exists \in BOOLEAN, tool_ok \in BOOLEAN : Enter(wav_exists, tool_ok)
    \/ Up
    \/ Down

SpecQuery == Init /\ [][NextQuery]_vars

(***************************************************************************)
(* Caption files that exercise the loader: near-identical blocks, timing   *)
(* lines that do not parse, text before any timing line, several files     *)
(***************************************************************************)
\* Blocks with the same text whose ranges are 10 ms and 5 ms apart.
FileNear ==
    << Header,
       TimingLine(Stamp(<<"0", "0", "0">>), Stamp(<<"0", "5", "0">>)),
       <<"a">>,
       TimingLine(Stamp(<<"0", "1", "0">>), Stamp(<<"0", "6", "0">>)),
       <<"a">>,
       TimingLine(Stamp(<<"0", "1", "5">>), Stamp(<<"0", "6", "5">>)),
       <<"a">>,
       TimingLine(Stamp(<<"1", "0", "0">>), Stamp(<<"1", "5", "0">>)),
       <<"B">> >>

\* A text line before any timing line, a valid block, text lines under
\* timing lines that do not parse (no milliseconds; two ':' fields; three
\* '.' fields; a field that is not a number; three sides of "-->"), and a
\* valid block after them.
FileMalformed ==
    << Header,
       <<"a">>,
       TimingLine(Stamp(<<"0", "0", "0">>), Stamp(<<"0", "2", "0">>)),
       <<"B">>,
       TimingLine(<<"0", "0", ":", "0", "0", ":", "0", "1">>,
                  <<"0", "0", ":", "0", "0", ":", "0", "2">>),
       <<"a">>,
       TimingLine(<<"0", "0", ":", "0", "0", ".", "0", "3", "0">>,
                  <<"0", "0", ":", "0", "0", ".", "0", "4", "0">>),
       <<"a", "b">>,
       TimingLine(Stamp(<<"0", ".", "3", "0">>), Stamp(<<"0", "4", "0">>)),
       <<"B", "a">>,
       TimingLine(<<"0", "0", ":", "0", "0", ":", "0", "a", ".", "0", "3", "0">>,
                  Stamp(<<"0", "4", "0">>)),
       <<"a">>,
       TimingLine(Stamp(<<"0", "1", "0">>),
                  TimingLine(Stamp(<<"0", "2", "0">>), Stamp(<<"0", "3", "0">>))),
       <<"a">>,
       TimingLine(Stamp(<<"0", "3", "0">>), Stamp(<<"0", "5", "0">>)),
       <<"c">> >>

\* A timing line that does not parse before the first valid one.
FileLateStart ==
    << Header,
       <<"-", "-", ">">>,
       <<"a">>,
       TimingLine(Stamp(<<"0", "7", "0">>), Stamp(<<"0", "9", "0">>)),
       <<"a", " ", "B">> >>

\* Seven text lines in three blocks, a blank line among them.
FileMany ==
    << Header,
       TimingLine(Stamp(<<"0", "0", "0">>), Stamp(<<"0", "2", "0">>)),
       <<"a">>,
       <<"B">>,
       TimingLine(Stamp(<<"0", "3", "0">>), Stamp(<<"0", "5", "0">>)),
       <<"a", "b">>,
       Blank,
       <<"B", "a">>,
       <<"a", " ", "B">>,
       TimingLine(Stamp(<<"0", "6", "0">>), Stamp(<<"0", "8", "0">>)),
       <<"B", " ", "a">>,
       <<"a", "c">> >>

LoadCorpora ==
    Corpora \cup { <<FileNear>>, <<FileMalformed>>, <<FileBlocks, FileLong>>,
                   <<FileLateStart, FileInverted>>, <<FileMany>> }

\* App::new on one of these directories.
InitLoad ==
    /\ vtt_files \in LoadCorpora
    /\ search_query = <<>>
    /\ all_results = load_all_results(vtt_files)
    /\ filtered_results = filter(search_query, all_results)
    /\ flat_results = flatten_results(filtered_results, 0)
    /\ selected_idx = IF flat_results = <<>> THEN None ELSE Some(0)
    /\ status_message = MsgLoaded
    /\ context_lines = 0
    /\ running = TRUE

\* A session on them in which the operator edits no timestamp.
NextLoad ==
    \/ Quit
    \/ ContextPlus
    \/ ContextMinus
    \/ \E wav_exists \in BOOLEAN, tool_ok \in BOOLEAN : Tab(wav_exists, tool_ok)
    \/ \E c \in KeyChars : TypeChar(c, MaxQueryLen)
    \/ Backspace
    \/ \E wav_exists \in BOOLEAN, tool_ok \in BOOLEAN : Enter(wav_exists, tool_ok)
    \/ Up
    \/ Down

SpecLoad == InitLoad /\ [][NextLoad]_vars

(***************************************************************************)
(* App::new when reading a caption file may fail                           *)
(***************************************************************************)
\* The message App is constructed with, before the load.
MsgInitial ==
    <<"Type to search, +/- for context, Tab to preview, Enter to extract", "">>

RECURSIVE try_load_files_best_effort(_, _, _)
\* try_load_files leaving out the files that cannot be read.
try_load_files_best_effort(files, n, unreadable) ==
    IF n > Len(files) THEN [ok |-> TRUE, all_results |-> <<>>]
    ELSE LET rest == try_load_files_best_effort(files, n + 1, unreadable)
         IN  [ok |-> TRUE,
              all_results |-> (IF n \in unreadable THEN <<>>
                               ELSE load_file(n, files[n], 0)) \o rest.all_results]

RECURSIVE try_load_files(_, _, _)
\* App::load_all_results from file n on, read_to_string(file_path)? failing
\* on the files in unreadable: whether the load returned Ok, and the segments
\* pushed to all_results until it returned.
try_load_files(files, n, unreadable) ==
    IF n > Len(files) THEN [ok |-> TRUE, all_results |-> <<>>]
    ELSE IF n \in unreadable THEN [ok |-> FALSE, all_results |-> <<>>]
    ELSE LET rest == try_load_files(files, n + 1, unreadable)
         IN  [ok |-> rest.ok,
              all_results |-> load_file(n, files[n], 0) \o rest.all_results]

\* Directories of one and of two caption files.
StartCorpora == { <<FileLong>>, <<FileBlocks, FileLong>>, <<FileInverted, FileShort>> }

\* App::new: when load_all_results()? returns the error, new returns it and
\* run_app returns before its event loop.
InitStart ==
    /\ vtt_files \in StartCorpora
    /\ search_query = <<>>
    /\ context_lines = 0
    /\ \E unreadable \in SUBSET (1..Len(vtt_files)) :
           LET loaded == try_load_files(vtt_files, 1, unreadable)
           IN  /\ all_results = loaded.all_results
               /\ IF loaded.ok
                  THEN /\ filtered_results = filter(search_query, all_results)
                       /\ flat_results = flatten_results(filtered_results, 0)
                       /\ selected_idx = IF flat_results = <<>> THEN None ELSE Some(0)
                       /\ status_message = MsgLoaded
                       /\ running = TRUE
                  ELSE /\ filtered_results = <<>>
                       /\ flat_results = <<>>
                       /\ selected_idx = None
                       /\ status_message = MsgInitial
                       /\ running = FALSE

SpecStart == InitStart /\ [][NextLoad]_vars

(***************************************************************************)
(* The three-block file "hello world" / "foo bar" / "baz hello"            *)
(***************************************************************************)
StampSeconds(s) == <<"0", "0", ":", "0", "0", ":", "0", s, ".", "0", "0", "0">>

TextHelloWorld == <<"h", "e", "l", "l", "o", " ", "w", "o", "r", "l", "d">>
TextFooBar == <<"f", "o", "o", " ", "b", "a", "r">>
TextBazHello == <<"b", "a", "z", " ", "h", "e", "l", "l", "o">>

FileHello ==
    << Header,
       Blank,
       TimingLine(StampSeconds("1"), StampSeconds("2")),
       TextHelloWorld,
       Blank,
       TimingLine(StampSeconds("2"), StampSeconds("3")),
       TextFooBar,
       Blank,
       TimingLine(StampSeconds("3"), StampSeconds("4")),
       TextBazHello >>

\* The keys that spell "hello".
HelloKeyChars == {"h", "e", "l", "o"}

InitHello ==
    /\ vtt_files = <<FileHello>>
    /\ search_query = <<>>
    /\ all_results = load_all_results(vtt_files)
    /\ filtered_results = filter(search_query, all_results)
    /\ flat_results = flatten_results(filtered_results, 0)
    /\ selected_idx = IF flat_results = <<>> THEN None ELSE Some(0)
    /\ status_message = MsgLoaded
    /\ context_lines = 0
    /\ running = TRUE

NextHello ==
    \/ Quit
    \/ ContextPlus
    \/ ContextMinus
    \/ \E wav_exists \in BOOLEAN, tool_ok \in BOOLEAN : Tab(wav_exists, tool_ok)
    \/ \E c \in HelloKeyChars : TypeChar(c, MaxHelloLen)
    \/ Backspace
    \/ \E wav_exists \in BOOLEAN, tool_ok \in BOOLEAN : Enter(wav_exists, tool_ok)
    \/ Up
    \/ Down

SpecHello == InitHello /\ [][NextHello]_vars

(***************************************************************************)
(* A session in which the operator moves end times only, far beyond the     *)
(* originals                                                                *)
(***************************************************************************)
CeilingCorpora == { <<FileLong>>, <<FileBlocks>> }

EndAdjustKeys == {"[", "]", "{", "}"}

\* The arm of the four end adjustment keys, ends kept within max_stretch of
\* their originals.
AdjustEnd(key, max_stretch) ==
    /\ running
    /\ LET delta_ms == adjustment_direction(key) * adjustment_value(key)
           r == adjust_end_time(flat_results, selected_idx, status_message, delta_ms)
       IN  /\ \A i \in 1..Len(r.flat_results) :
                  r.flat_results[i].end_time <= r.flat_results[i].original_end + max_stretch
           /\ flat_results' = r.flat_results
           /\ status_message' = r.status_message
           /\ running' = running
    /\ UNCHANGED <<vtt_files, search_query, all_results, filtered_results,
                   selected_idx, context_lines>>

InitCeiling ==
    /\ vtt_files \in CeilingCorpora
    /\ search_query = <<>>
    /\ all_results = load_all_results(vtt_files)
    /\ filtered_results = filter(search_query, all_results)
    /\ flat_results = flatten_results(filtered_results, 0)
    /\ selected_idx = IF flat_results = <<>> THEN None ELSE Some(0)
    /\ status_message = MsgLoaded
    /\ context_lines = 0
    /\ running = TRUE

NextCeiling ==
    \/ Quit
    \/ \E key \in EndAdjustKeys : AdjustEnd(key, MaxCeilingStretch)
    \/ Esc
    \/ Up
    \/ Down

SpecCeiling == InitCeiling /\ [][NextCeiling]_vars

(***************************************************************************)
(* Verification of the timestamp editor and the query filter               *)
(***************************************************************************)
\* The deltas the editor functions are applied to in every reachable state:
\* the key presets and values around 0, the minimum gap and the ceiling.
Deltas == {-30001, -100, -26, -25, -11, -10, -1, 0, 1, 10, 11, 25, 26, 100,
           29990, 30000, 30001}

\* A message no operation writes, passed in as the message shown before a call.
Previous == <<"(the message shown before the call)", "">>

SelValid == IsSome(selected_idx) /\ Unwrap(selected_idx) < Len(flat_results)
Sel == flat_results[Unwrap(selected_idx) + 1]
StartCall(d) == adjust_start_time(flat_results, selected_idx, Previous, d)
EndCall(d) == adjust_end_time(flat_results, selected_idx, Previous, d)
ResetCall == reset_times(flat_results, selected_idx, Previous)
\* The selected line in the result of a call.
SelOf(r) == r.flat_results[Unwrap(selected_idx) + 1]
Rejected(r) == r.flat_results = flat_results /\ r.status_message # Previous

C2_AdjustEndContract ==
    SelValid =>
        \A d \in Deltas :
            LET cur == Sel.end_time
                idx == Unwrap(selected_idx)
                maxEnd == IF idx + 2 <= Len(flat_results)
                          THEN flat_results[idx + 2].start_time
                          ELSE cur + 30000
                clamped == IF cur + d < Sel.start_time + 10 THEN Sel.start_time + 10
                           ELSE IF cur + d > maxEnd THEN maxEnd ELSE cur + d
                r == EndCall(d)
            IN  IF cur + d < Sel.start_time + 10 \/ cur + d > maxEnd
                THEN Rejected(r)
                ELSE SelOf(r).end_time = cur + d /\ cur + d = clamped

\* An adjustEnd has been accepted on a line that has a next line, and the end
\* now differs from the original.
C2_Witness ==
    /\ SelValid
    /\ status_message = MsgEndAdjusted
    /\ Unwrap(selected_idx) + 2 <= Len(flat_results)
    /\ Sel.end_time # Sel.original_end

\* C3 as stated: after any adjustStart call, accepted or rejected, on any line
\* the start is never negative and never exceeds end - 10 ms.
C3_StartClampAnyLine ==
    SelValid =>
        \A d \in Deltas :
            LET line == SelOf(StartCall(d))
            IN  line.start_time >= 0 /\ line.start_time <= line.end_time - 10

\* C3 as amended: after any adjustStart call the start is never negative; it
\* does not exceed end - 10 ms after an accepted call, nor after a rejected
\* call on a line whose start did not exceed end - 10 ms before the call.
C3_StartClamp ==
    SelValid =>
        \A d \in Deltas :
            LET r == StartCall(d)
                line == SelOf(r)
            IN  /\ line.start_time >= 0
                /\ (r.status_message = MsgStartAdjusted
                    \/ Sel.start_time <= Sel.end_time - 10)
                   => line.start_time <= line.end_time - 10

\* An adjustStart has been rejected on a line whose start stays beyond
\* end - 10 ms.
C3_Witness ==
    /\ SelValid
    /\ status_message = MsgStartExceedsEnd
    /\ Sel.start_time > Sel.end_time - 10

\* The bound of adjustEnd on the selected line: the next line's start, or the
\* current end + 30000 ms on the last line.
NeighbourBound ==
    IF Unwrap(selected_idx) + 2 <= Len(flat_results)
    THEN flat_results[Unwrap(selected_idx) + 2].start_time
    ELSE Sel.end_time + 30000

\* C4 as stated: after any adjustEnd call, accepted or rejected, on any line
\* the end is never less than start + 10 ms and never exceeds the
\* neighbour-derived bound in force at the time of the call.
C4_EndClampAnyLine ==
    SelValid =>
        \A d \in Deltas :
            LET line == SelOf(EndCall(d))
            IN  /\ line.end_time >= line.start_time + 10
                /\ line.end_time <= NeighbourBound

\* C4 as amended: after an accepted adjustEnd call, and after a rejected call
\* on a line whose end was within the two bounds before the call, the end is
\* not less than start + 10 ms and does not exceed the neighbour-derived
\* bound in force at the time of the call; a rejected call leaves the end as
\* it was.
C4_EndClamp ==
    SelValid =>
        \A d \in Deltas :
            LET r == EndCall(d)
                line == SelOf(r)
            IN  /\ (r.status_message = MsgEndAdjusted
                    \/ (Sel.end_time >= Sel.start_time + 10
                        /\ Sel.end_time <= NeighbourBound))
                   => /\ line.end_time >= line.start_time + 10
                      /\ line.end_time <= NeighbourBound
                /\ r.status_message # MsgEndAdjusted => line.end_time = Sel.end_time

\* An adjustEnd has been rejected on a line that ends after the next line
\* starts.
C4_Witness ==
    /\ SelValid
    /\ status_message \in {MsgEndExceedsMaximum, MsgEndPrecedesStart}
    /\ Unwrap(selected_idx) + 2 <= Len(flat_results)
    /\ Sel.end_time > flat_results[Unwrap(selected_idx) + 2].start_time

\* The list the last flatten produced: flatten_results of the current
\* filtered list at the current depth.
AsFlattened == flatten_results(filtered_results, context_lines)

\* C5: original_start/original_end of a DisplayLine are never changed by a
\* command after the line is created, and reset on a line sets
\* start = original_start and end = original_end: exactly the values captured
\* when the list was flattened.
C5_ResetExactness ==
    /\ Len(flat_results) = Len(AsFlattened)
    /\ \A i \in 1..Len(flat_results) :
           /\ flat_results[i].original_start = AsFlattened[i].start_time
           /\ flat_results[i].original_end = AsFlattened[i].end_time
    /\ SelValid =>
           LET r == ResetCall
               line == SelOf(r)
               fresh == AsFlattened[Unwrap(selected_idx) + 1]
           IN  /\ line.start_time = line.original_start
               /\ line.end_time = line.original_end
               /\ line.start_time = fresh.start_time
               /\ line.end_time = fresh.end_time
               /\ line.original_start = fresh.start_time
               /\ line.original_end = fresh.end_time
               /\ r.status_message = MsgReset

\* A reset has restored the selected line while another line of the list is
\* still edited.
C5_Witness ==
    /\ SelValid
    /\ status_message = MsgReset
    /\ Sel.start_time = Sel.original_start
    /\ Sel.end_time = Sel.original_end
    /\ \E i \in 1..Len(flat_results) :
           flat_results[i].start_time # flat_results[i].original_start

StartKeys == {k \in AdjustKeys : adjust_start(k)}
EndKeys == {k \in AdjustKeys : ~adjust_start(k)}
RestUnchanged ==
    UNCHANGED <<vtt_files, search_query, all_results, filtered_results,
                selected_idx, context_lines, running>>
\* Lines i of the list are the same before and after, except perhaps line idx.
OthersUnchanged ==
    /\ Len(flat_results') = Len(flat_results)
    /\ \A i \in 1..Len(flat_results) :
           (~SelValid \/ i # Unwrap(selected_idx) + 1)
               => flat_results'[i] = flat_results[i]

\* C6: an adjustStart changes at most the selected line's start, an adjustEnd
\* at most the selected line's end, a reset at most the selected line's start
\* and end; no other DisplayLine and none of the index, the filtered list, the
\* query, the context depth or the selection index is changed by them.
C6_EditorFrame ==
    [][ /\ (\E k \in StartKeys : AdjustTime(k)) =>
               /\ RestUnchanged /\ OthersUnchanged
               /\ SelValid => flat_results'[Unwrap(selected_idx) + 1] =
                                  [Sel EXCEPT !.start_time =
                                      flat_results'[Unwrap(selected_idx) + 1].start_time]
        /\ (\E k \in EndKeys : AdjustTime(k)) =>
               /\ RestUnchanged /\ OthersUnchanged
               /\ SelValid => flat_results'[Unwrap(selected_idx) + 1] =
                                  [Sel EXCEPT !.end_time =
                                      flat_results'[Unwrap(selected_idx) + 1].end_time]
        /\ Esc =>
               /\ RestUnchanged /\ OthersUnchanged
               /\ SelValid => flat_results'[Unwrap(selected_idx) + 1] =
                                  [Sel EXCEPT !.start_time =
                                      flat_results'[Unwrap(selected_idx) + 1].start_time,
                                              !.end_time =
                                      flat_results'[Unwrap(selected_idx) + 1].end_time]
      ]_vars

\* An adjustEnd has been accepted on a line that has a next line.
C6_Witness ==
    /\ SelValid
    /\ status_message = MsgEndAdjusted
    /\ Unwrap(selected_idx) + 2 <= Len(flat_results)
    /\ search_query # <<>>
    /\ context_lines > 0

\* Every line's end is <= the next line's start.
InSequence(starts, ends) ==
    \A i \in 1..(Len(starts) - 1) : ends[i] <= starts[i + 1]

\* C7: if in a flattened list every line's end is <= the next line's start,
\* this still holds after any sequence of adjustStart, adjustEnd and reset
\* commands interleaved with selection moves.
C7_SequencePreserved ==
    InSequence([i \in 1..Len(flat_results) |-> flat_results[i].original_start],
               [i \in 1..Len(flat_results) |-> flat_results[i].original_end])
        => InSequence([i \in 1..Len(flat_results) |-> flat_results[i].start_time],
                      [i \in 1..Len(flat_results) |-> flat_results[i].end_time])

\* The messages adjustStart, adjustEnd and reset report.
EditorMessages ==
    {MsgStartAtMinimum, MsgStartExceedsEnd, MsgStartAdjusted, MsgEndPrecedesStart,
     MsgEndExceedsMaximum, MsgEndAdjusted, MsgReset, MsgNoLineSelected}

\* C8: when no line is selected, or the selected index is out of range, each
\* of adjustStart, adjustEnd and reset changes no timestamp and reports a
\* message (the status message is set by the call).
C8_NoSelectionReported ==
    ~SelValid =>
        /\ \A d \in Deltas :
               /\ StartCall(d).flat_results = flat_results
               /\ StartCall(d).status_message \in EditorMessages
               /\ EndCall(d).flat_results = flat_results
               /\ EndCall(d).status_message \in EditorMessages
        /\ ResetCall.flat_results = flat_results
        /\ ResetCall.status_message \in EditorMessages

(***************************************************************************)
(* The query, stated without the functions of the filter                   *)
(***************************************************************************)
\* The whitespace-separated words of q: its maximal runs without whitespace.
QueryWords(q) ==
    {SubSeq(q, i, j) : <<i, j>> \in
        {p \in (1..Len(q)) \X (1..Len(q)) :
            /\ p[1] <= p[2]
            /\ \A k \in p[1]..p[2] : q[k] \notin {" ", "\t"}
            /\ (p[1] = 1 \/ q[p[1] - 1] \in {" ", "\t"})
            /\ (p[2] = Len(q) \/ q[p[2] + 1] \in {" ", "\t"})}}

\* c and d are the same character up to case.
SameLetter(c, d) ==
    \/ c = d
    \/ \E n \in 1..26 : {c, d} = {UpperChars[n], LowerChars[n]}

\* w is a case-insensitive substring of text.
Within(w, text) ==
    \E i \in 0..(Len(text) - Len(w)) :
        \A k \in 1..Len(w) : SameLetter(text[i + k], w[k])

Passes(q, text) == \A w \in QueryWords(q) : Within(w, text)

HelloLoud == <<"h", "e", "l", "l", "o", " ", "l", "o", "u", "d">>
TextHelloHowLoud ==
    <<"H", "E", "L", "L", "O", ",", " ", "h", "o", "w", " ", "L", "O", "U", "D">>
TextHelloQuiet == <<"h", "e", "l", "l", "o", " ", "q", "u", "i", "e", "t">>
Segment(text) ==
    [file_path |-> 1, text |-> text, start_time |-> 0, end_time |-> 1000,
     context_before |-> <<>>, context_after |-> <<>>]

\* C9: for an empty query the filtered list equals the full segment list; for
\* a non-empty query a segment is in the filtered list if and only if every
\* whitespace-separated word of the query is a case-insensitive substring of
\* its text (a query of only whitespace passes every segment).  "hello loud"
\* matches "HELLO, how LOUD" and not "hello quiet".
C9_QueryAndSemantics ==
    /\ search_query = <<>> => filtered_results = all_results
    /\ \A j \in 1..Len(all_results) :
           (\E i \in 1..Len(filtered_results) : filtered_results[i] = all_results[j])
               <=> Passes(search_query, all_results[j].text)
    /\ \A i \in 1..Len(filtered_results) :
           \E j \in 1..Len(all_results) : filtered_results[i] = all_results[j]
    /\ (\A k \in 1..Len(search_query) : search_query[k] \in {" ", "\t"})
           => filtered_results = all_results
    /\ filter(HelloLoud, <<Segment(TextHelloHowLoud), Segment(TextHelloQuiet)>>)
           = <<Segment(TextHelloHowLoud)>>

\* A query of two words, one in upper case, has been typed and passes some
\* segments and not others.
C9_Witness ==
    /\ status_message = MsgFound
    /\ Cardinality(QueryWords(search_query)) = 2
    /\ \E k \in 1..Len(search_query) : search_query[k] = "B"
    /\ filtered_results # <<>>
    /\ Len(filtered_results) < Len(all_results)

\* sub is a subsequence of full: its elements, in order, at increasing
\* positions of full.
IsSubsequence(sub, full) ==
    \E f \in [1..Len(sub) -> 1..Len(full)] :
        /\ \A i \in 1..Len(sub) : sub[i] = full[f[i]]
        /\ \A i \in 1..(Len(sub) - 1) : f[i] < f[i + 1]

\* C10: in every reachable state the filtered list is a subsequence of the
\* full segment list (same relative order, nothing added, duplicated or
\* reordered), and the full segment list is never changed by any command
\* after load.
C10_StableOrder ==
    /\ [](IsSubsequence(filtered_results, all_results))
    /\ [][all_results' = all_results]_vars

\* A query has been typed that passes two or more segments and not all.
C10_Witness ==
    /\ status_message = MsgFound
    /\ Len(filtered_results) >= 2
    /\ Len(filtered_results) < Len(all_results)

(***************************************************************************)
(* Verification of filtering, flattening, the keys and the loader          *)
(***************************************************************************)
\* A flattened list with every edit undone.
Unedited(flat) ==
    [i \in 1..Len(flat) |->
        [flat[i] EXCEPT !.start_time = flat[i].original_start,
                        !.end_time = flat[i].original_end]]

IsEdited(line) ==
    line.start_time # line.original_start \/ line.end_time # line.original_end

\* What a further run of the filter on the current query yields.
FilterAgain == filter(search_query, all_results)

\* C11: running the filter again with the query unchanged, whatever commands
\* ran since the query was last changed, yields the same ordered filtered
\* list as the first run, and at the same context depth the same flattened
\* list as was built then (the list on display with its edits undone).
C11_FilterIdempotent ==
    /\ FilterAgain = filtered_results
    /\ flatten_results(FilterAgain, context_lines) = Unedited(flat_results)

\* Since a query that passes some segments and not all was typed, the depth
\* was changed and a line edited.
C11_Witness ==
    /\ search_query # <<>>
    /\ filtered_results # <<>>
    /\ Len(filtered_results) < Len(all_results)
    /\ context_lines > 0
    /\ \E i \in 1..Len(flat_results) :
           flat_results[i].is_match /\ IsEdited(flat_results[i])
    /\ status_message \in {MsgStartAdjusted, MsgEndAdjusted}

\* The text of a context line without its direction marker and the space.
Unmarked(text) == SubSeq(text, 3, Len(text))

Distance(a, b) == IF a > b THEN a - b ELSE b - a

\* No context line of the list repeats a match line of the list.
NoMatchAsContext(flat) ==
    \A i \in 1..Len(flat), j \in 1..Len(flat) :
        (~flat[i].is_match /\ flat[j].is_match) =>
            ~ /\ Unmarked(flat[i].text) = flat[j].text
              /\ Distance(flat[i].start_time, flat[j].start_time) <= 10
              /\ Distance(flat[i].end_time, flat[j].end_time) <= 10

\* The context entries of the filtered segments that a flatten at the depth
\* leaves out because a filtered segment equals them.
Suppressed(depth) ==
    {<<r, c>> \in (1..Len(filtered_results)) \X (1..MAX_CONTEXT_CAPTURE) :
        \/ /\ c <= Len(filtered_results[r].context_before)
           /\ c > Len(filtered_results[r].context_before) - depth
           /\ \E m \in 1..Len(filtered_results) :
                  <<filtered_results[m].text, filtered_results[m].start_time,
                    filtered_results[m].end_time>>
                      = filtered_results[r].context_before[c]
        \/ /\ c <= Len(filtered_results[r].context_after)
           /\ c <= depth
           /\ \E m \in 1..Len(filtered_results) :
                  <<filtered_results[m].text, filtered_results[m].start_time,
                    filtered_results[m].end_time>>
                      = filtered_results[r].context_after[c]}

\* C12: immediately after any flatten (the list on display in a session
\* without timestamp edits, and the list a flatten of the current filtered
\* list builds at each depth), no context line has the text of a match line
\* of the same list with start and end both within 10 ms of that line's.
C12_DuplicateSuppression ==
    /\ NoMatchAsContext(flat_results)
    /\ \A depth \in 0..5 :
           NoMatchAsContext(flatten_results(filtered_results, depth))

\* The blocks 10 ms and 5 ms apart with the same text are all matches; the
\* list shows a context line and leaves out context entries that are matches.
C12_Witness ==
    /\ vtt_files = <<FileNear>>
    /\ search_query = <<"a">>
    /\ Len(filtered_results) = 3
    /\ context_lines > 0
    /\ \E i \in 1..Len(flat_results) : ~flat_results[i].is_match
    /\ Suppressed(context_lines) # {}

\* What the claim compares of a display line.
Shown(line) == <<line.text, line.start_time, line.end_time, line.is_match>>

Copies(flat, k) == Cardinality({i \in 1..Len(flat) : Shown(flat[i]) = k})

\* The multiset of the lines of small is contained in that of large.
BagContained(small, large) ==
    \A i \in 1..Len(small) :
        Copies(small, Shown(small[i])) <= Copies(large, Shown(small[i]))

MatchesOf(flat) == SelectSeq(flat, LAMBDA line : line.is_match)

AtDepth(depth) == flatten_results(filtered_results, depth)

\* C13: for the filtered list of every reachable state and every depth k in
\* 0..4, the lines flattened at depth k are contained, as a multiset of
\* (text, start, end, is_match), in the lines flattened at depth k+1, and
\* the match lines are the same sequence at both depths.
C13_ContextMonotone ==
    \A k \in 0..4 :
        /\ BagContained(AtDepth(k), AtDepth(k + 1))
        /\ MatchesOf(AtDepth(k)) = MatchesOf(AtDepth(k + 1))
        /\ Len(MatchesOf(AtDepth(k))) = Len(filtered_results)

\* The depth was raised on a list of two or more matches, and the list grew
\* at this step and grows again at the next depth.
C13_Witness ==
    /\ status_message = MsgContextSet
    /\ context_lines \in 1..4
    /\ flat_results = AtDepth(context_lines)
    /\ Len(filtered_results) >= 2
    /\ Len(AtDepth(context_lines)) > Len(AtDepth(context_lines - 1))
    /\ Len(AtDepth(context_lines + 1)) > Len(AtDepth(context_lines))

Hello == <<"h", "e", "l", "l", "o">>

\* The list the claim gives for query "hello" at depth 1.
HelloAtDepthOne ==
    << <<TextHelloWorld, 1000, 2000, TRUE>>,
       <<<<DownArrow, " ">> \o TextFooBar, 2000, 3000, FALSE>>,
       <<<<UpArrow, " ">> \o TextFooBar, 2000, 3000, FALSE>>,
       <<TextBazHello, 3000, 4000, TRUE>> >>

IsFilteredSegment(ctx) ==
    \E m \in 1..Len(filtered_results) :
        <<filtered_results[m].text, filtered_results[m].start_time,
          filtered_results[m].end_time>> = ctx

\* The context entries within the depth that are not filtered segments.
KeptContext(depth) ==
    {<<r, side, c>> \in (1..Len(filtered_results)) \X {"before", "after"}
                        \X (1..MAX_CONTEXT_CAPTURE) :
        IF side = "before"
        THEN /\ c <= Len(filtered_results[r].context_before)
             /\ c > Len(filtered_results[r].context_before) - depth
             /\ ~IsFilteredSegment(filtered_results[r].context_before[c])
        ELSE /\ c <= Len(filtered_results[r].context_after)
             /\ c <= depth
             /\ ~IsFilteredSegment(filtered_results[r].context_after[c])}

\* C14: a context entry is left out only when it is one of the filtered
\* segments, never because it was already emitted as context: at every depth
\* the list has one context line per context entry within the depth that is
\* not a filtered segment, and on the three-block file with query "hello" at
\* depth 1 the list is exactly match "hello world", context "foo bar" after,
\* context "foo bar" before (both 2.000-3.000), match "baz hello".
C14_ContextRepeats ==
    /\ \A depth \in 0..5 :
           Len(AtDepth(depth)) = Len(filtered_results) + Cardinality(KeptContext(depth))
    /\ (search_query = Hello /\ context_lines = 1) =>
           [i \in 1..Len(flat_results) |-> Shown(flat_results[i])] = HelloAtDepthOne

\* "hello" was typed at depth 1, and the list shows the same text and range
\* in two context lines.
C14_Witness ==
    /\ search_query = Hello
    /\ context_lines = 1
    /\ status_message = MsgFound
    /\ \E i \in 1..Len(flat_results), j \in 1..Len(flat_results) :
           /\ i < j
           /\ ~flat_results[i].is_match /\ ~flat_results[j].is_match
           /\ Unmarked(flat_results[i].text) = Unmarked(flat_results[j].text)
           /\ flat_results[i].start_time = flat_results[j].start_time
           /\ flat_results[i].end_time = flat_results[j].end_time

\* C15: immediately after every command that changes the query text or the
\* context depth, every line of the flattened list has start = original_start
\* and end = original_end: no earlier timestamp edit survives the rebuild.
C15_RebuildDiscardsEdits ==
    [][ (search_query' # search_query \/ context_lines' # context_lines) =>
            \A i \in 1..Len(flat_results') : ~IsEdited(flat_results'[i])
      ]_vars

\* A line on display is edited, the depth can go both ways and the query can
\* be shortened; the list each of these rebuilds has that line unedited.
C15_Witness ==
    /\ search_query # <<>>
    /\ context_lines \in 1..4
    /\ \E i \in 1..Len(flat_results) : IsEdited(flat_results[i])
    /\ \A i \in 1..Len(AtDepth(context_lines + 1)) :
           ~IsEdited(AtDepth(context_lines + 1)[i])
    /\ Len(AtDepth(context_lines + 1)) >= Len(flat_results)

\* Nothing but the status message changes.
OnlyMessage(message) ==
    /\ status_message' = message
    /\ UNCHANGED <<vtt_files, search_query, all_results, filtered_results,
                   flat_results, selected_idx, context_lines, running>>

\* The depth goes to the given value and the list is flattened anew from the
\* same filtered list.
Reflattened(depth) ==
    /\ context_lines' = depth
    /\ flat_results' = flatten_results(filtered_results, depth)
    /\ \A i \in 1..Len(flat_results') : ~IsEdited(flat_results'[i])
    /\ MatchesOf(flat_results') = MatchesOf(Unedited(flat_results))
    /\ UNCHANGED <<vtt_files, search_query, all_results, filtered_results>>

\* C16: the context depth is in 0..5 in every reachable state; '+' at depth
\* 5 and '-' at depth 0 leave the depth and the flattened list, edits
\* included, as they are and only set the boundary message; any other '+' or
\* '-' changes the depth by exactly one and flattens anew without changing
\* the query or the filtered list.
C16_ContextDepthRange ==
    /\ [](context_lines \in 0..5)
    /\ [][ /\ ContextPlus =>
                 IF context_lines = 5
                 THEN OnlyMessage(MsgContextMaximum)
                 ELSE Reflattened(context_lines + 1)
           /\ ContextMinus =>
                 IF context_lines = 0
                 THEN OnlyMessage(MsgContextMinimum)
                 ELSE Reflattened(context_lines - 1)
         ]_vars

\* '+' was pressed at depth 5 on a list that has an edited line.
C16_Witness ==
    /\ context_lines = 5
    /\ status_message = MsgContextMaximum
    /\ \E i \in 1..Len(flat_results) : IsEdited(flat_results[i])

\* C17: Up moves the selection from index i to i-1 when i > 0 and leaves it
\* at index 0; Down moves it from i to i+1 when i+1 is a valid index and
\* leaves it on the last line; neither wraps around, and neither changes the
\* flattened list, the query or the context depth.
C17_Navigation ==
    [][ /\ Up =>
               /\ IsSome(selected_idx) =>
                      selected_idx' = IF Unwrap(selected_idx) > 0
                                      THEN Some(Unwrap(selected_idx) - 1)
                                      ELSE Some(0)
               /\ UNCHANGED <<flat_results, search_query, context_lines>>
        /\ Down =>
               /\ IsSome(selected_idx) =>
                      selected_idx' = IF Unwrap(selected_idx) + 1 < Len(flat_results)
                                      THEN Some(Unwrap(selected_idx) + 1)
                                      ELSE selected_idx
               /\ UNCHANGED <<flat_results, search_query, context_lines>>
      ]_vars

\* The selection has been moved down to the last line of a list of three or
\* more lines.
C17_Witness ==
    /\ Len(flat_results) >= 3
    /\ selected_idx = Some(Len(flat_results) - 1)
    /\ status_message = MsgContextSet

\* The query becomes the given one and the lists are filtered anew from it.
Refiltered(query) ==
    /\ search_query' = query
    /\ filtered_results' = filter(query, all_results)
    /\ flat_results' = flatten_results(filtered_results', context_lines)
    /\ UNCHANGED <<all_results, context_lines>>

Appended(c) == Refiltered(Append(search_query, c))

\* C18: every printable character key press appends that character to the
\* query and refilters, the characters that are also command keys (q, +, -
\* and the eight timing keys) included; backspace removes the last query
\* character, leaving an empty query empty, and refilters.
C18_QueryEditingKeys ==
    [][ /\ \A c \in KeyChars : TypeChar(c, MaxQueryLen) => Appended(c)
        /\ Backspace =>
               Refiltered(IF search_query = <<>> THEN <<>>
                          ELSE SubSeq(search_query, 1, Len(search_query) - 1))
        /\ Quit => Appended("q")
        /\ ContextPlus => Appended("+")
        /\ ContextMinus => Appended("-")
        /\ \A key \in AdjustKeys : AdjustTime(key) => Appended(key)
      ]_vars

\* Lines are numbered from 1 here; line 1 is the header line.
IsTimingLine(line) == \E k \in 1..(Len(line) - 2) : SubSeq(line, k, k + 2) = Arrow

IsBlankLine(line) == \A k \in 1..Len(line) : line[k] \in Whitespace

\* The text lines of a file, in file order.
TextLines(lines) ==
    SelectSeq([k \in 1..Len(lines) |-> k], LAMBDA k :
        k > 1 /\ ~IsTimingLine(lines[k]) /\ ~IsBlankLine(lines[k]))

HasTimingBefore(lines, k) == \E j \in 1..(k - 1) : IsTimingLine(lines[j])

NearestTimingBefore(lines, k) ==
    lines[CHOOSE j \in 1..(k - 1) :
              /\ IsTimingLine(lines[j])
              /\ \A h \in (j + 1)..(k - 1) : ~IsTimingLine(lines[h])]

HasParsableTiming(lines, k) ==
    /\ HasTimingBefore(lines, k)
    /\ IsSome(parse_time_range(NearestTimingBefore(lines, k)))

\* (text, start, end) of the segments the index holds for file f, in order.
SegmentsOf(f) ==
    LET of_file == SelectSeq(all_results, LAMBDA r : r.file_path = f)
    IN  [k \in 1..Len(of_file) |->
            <<of_file[k].text, of_file[k].start_time, of_file[k].end_time>>]

\* (text, start, end) of the given text lines under their nearest timing.
Timed(lines, text_lines) ==
    [k \in 1..Len(text_lines) |->
        <<trim(lines[text_lines[k]]),
          Unwrap(parse_time_range(NearestTimingBefore(lines, text_lines[k])))[1],
          Unwrap(parse_time_range(NearestTimingBefore(lines, text_lines[k])))[2]>>]

AllParsable(lines) ==
    \A k \in 1..Len(TextLines(lines)) : HasParsableTiming(lines, TextLines(lines)[k])

\* C19: a file whose N text lines each have a parsable nearest preceding
\* timing line yields exactly N segments, one per text line and not one per
\* block, in file order, each with the range of its nearest preceding timing
\* line; the files contribute in input order, not sorted by time.
C19_ParsingCountAndOrder ==
    /\ \A f \in 1..Len(vtt_files) :
           AllParsable(vtt_files[f]) =>
               /\ Len(SegmentsOf(f)) = Len(TextLines(vtt_files[f]))
               /\ SegmentsOf(f) = Timed(vtt_files[f], TextLines(vtt_files[f]))
    /\ \A i \in 1..Len(all_results), j \in 1..Len(all_results) :
           i < j => all_results[i].file_path <= all_results[j].file_path

\* Two files whose text lines all have a parsable timing line, one of them
\* with two text lines in one block, and segments not in order of time.
C19_Witness ==
    /\ Len(vtt_files) = 2
    /\ \A f \in 1..2 : AllParsable(vtt_files[f]) /\ SegmentsOf(f) # <<>>
    /\ \E i \in 1..(Len(all_results) - 1) :
           /\ all_results[i].file_path = all_results[i + 1].file_path
           /\ all_results[i].start_time = all_results[i + 1].start_time
    /\ \E i \in 1..(Len(all_results) - 1) :
           all_results[i].start_time > all_results[i + 1].start_time
    /\ filtered_results = all_results

\* The text lines of a file whose nearest preceding timing line parses.
ResolvedTextLines(lines) ==
    SelectSeq(TextLines(lines), LAMBDA k : HasParsableTiming(lines, k))

\* C20: a text line whose nearest preceding timing line does not parse
\* (wrong number of ':' or '.' fields, a field that is not an integer, not
\* exactly two sides of "-->") produces no segment and is not resolved
\* against an earlier valid timing line; text lines after a later valid
\* timing line are still parsed; a text line with no timing line before it
\* is skipped.
C20_MalformedTimingSkipped ==
    /\ \A f \in 1..Len(vtt_files) :
           SegmentsOf(f) = Timed(vtt_files[f], ResolvedTextLines(vtt_files[f]))
    /\ \A f \in 1..Len(vtt_files) :
           /\ vtt_files[f] = FileMalformed =>
                  SegmentsOf(f) = << <<<<"B">>, 0, 20>>, <<<<"c">>, 30, 50>> >>
           /\ vtt_files[f] = FileShort =>
                  SegmentsOf(f) = << <<<<"B">>, 30, 35>> >>
           /\ vtt_files[f] = FileLateStart =>
                  SegmentsOf(f) = << <<<<"a", " ", "B">>, 70, 90>> >>
    /\ \A r \in 1..Len(all_results) :
           \A c \in 1..Len(all_results[r].context_after) :
               \E k \in 1..Len(SegmentsOf(all_results[r].file_path)) :
                   SegmentsOf(all_results[r].file_path)[k] = all_results[r].context_after[c]

\* The file with a text line before any timing line, five text lines under
\* timing lines that do not parse after a valid block, and a valid block
\* after them: the index holds the two valid blocks only.
C20_Witness ==
    /\ vtt_files = <<FileMalformed>>
    /\ Len(all_results) = 2
    /\ Len(TextLines(FileMalformed)) = 8
    /\ \E k \in 1..8 : ~HasTimingBefore(FileMalformed, TextLines(FileMalformed)[k])
    /\ Len(ResolvedTextLines(FileMalformed)) = 2
    /\ all_results[1].context_after = << <<<<"c">>, 30, 50>> >>

(***************************************************************************)
(* Verification of preview and extract, the start of the session, the      *)
(* context capture, the adjustment keys and the selection                  *)
(***************************************************************************)
AudioProcessingErrors == {ErrWavNotFound, ErrInvalidRange, ErrNoLine}

\* The call must fail: the index is no line of the list, the audio file is
\* missing, or the line's end is not after its start.
MustFail(idx, wav_exists) ==
    \/ idx >= Len(flat_results)
    \/ ~wav_exists
    \/ flat_results[idx + 1].end_time <= flat_results[idx + 1].start_time

\* Nothing but the status message changes, and the session goes on.
SessionIntact ==
    /\ running' = TRUE
    /\ UNCHANGED <<vtt_files, search_query, all_results, filtered_results,
                   flat_results, selected_idx, context_lines>>

\* C21: preview and extract on the selected line fail with an audio
\* processing error when the line's end <= start, when the audio file is
\* missing, or when the selection index is not a line of the list; after a
\* failure as after a success only the status message has changed, and the
\* session keeps accepting commands.
C21_PreviewExtractFailures ==
    /\ [](IsSome(selected_idx) =>
            \A wav_exists \in BOOLEAN, tool_ok \in BOOLEAN :
                MustFail(Unwrap(selected_idx), wav_exists) =>
                    /\ preview_flat_line(flat_results, Unwrap(selected_idx),
                                         wav_exists, tool_ok)
                           \in AudioProcessingErrors
                    /\ extract_flat_line(flat_results, Unwrap(selected_idx),
                                         wav_exists, tool_ok)
                           \in AudioProcessingErrors)
    /\ [][ \A wav_exists \in BOOLEAN, tool_ok \in BOOLEAN :
               /\ Tab(wav_exists, tool_ok) =>
                      /\ SessionIntact
                      /\ (IsSome(selected_idx)
                          /\ MustFail(Unwrap(selected_idx), wav_exists)) =>
                             /\ status_message'[1] = "Preview error: "
                             /\ status_message'[2] \in AudioProcessingErrors
               /\ Enter(wav_exists, tool_ok) =>
                      /\ SessionIntact
                      /\ (IsSome(selected_idx)
                          /\ MustFail(Unwrap(selected_idx), wav_exists)) =>
                             /\ status_message'[1] = "Error: "
                             /\ status_message'[2] \in AudioProcessingErrors
         ]_vars

\* A preview was asked for while the selection index, left behind by a '-'
\* press, is beyond the end of the list.
C21_Witness ==
    /\ IsSome(selected_idx)
    /\ Unwrap(selected_idx) >= Len(flat_results)
    /\ status_message = MsgPreviewError(ErrNoLine)
    /\ running

\* C22: if reading any caption file fails the session never reaches the
\* state in which commands are processed: every command is processed in a
\* running session whose index holds the segments of all the files.
C22_LoadAllOrNothing ==
    /\ [](running => all_results = load_all_results(vtt_files))
    /\ [][running /\ all_results = load_all_results(vtt_files)]_vars

\* The read of the second file failed after the segments of the first were
\* pushed; the session was never started.
C22_Witness ==
    /\ ~running
    /\ status_message = MsgInitial
    /\ Len(vtt_files) = 2
    /\ all_results # <<>>
    /\ all_results # load_all_results(vtt_files)
    /\ filtered_results = <<>>

\* The position in the list flattened at the depth of the match line of the
\* r-th filtered segment.
MatchPosition(r, depth) ==
    r + Cardinality({x \in KeptContext(depth) :
                        x[1] < r \/ (x[1] = r /\ x[2] = "before")})

\* C23: for a match with at least k >= 2 stored context-before entries of
\* which the k nearest are not suppressed, the list flattened at depth k
\* shows directly before the match these k entries in chronological order:
\* the oldest first, the line immediately preceding the match last.
C23_ContextBeforeOrder ==
    context_lines >= 2 =>
        \A r \in 1..Len(filtered_results) :
            LET k == context_lines
                before == filtered_results[r].context_before
                n == Len(before)
                at == MatchPosition(r, k)
            IN  (n >= k /\ \A c \in (n - k + 1)..n : ~IsFilteredSegment(before[c])) =>
                    \A j \in 1..k :
                        Shown(AtDepth(k)[at - k - 1 + j]) =
                            <<<<UpArrow, " ">> \o before[n - k + j][1],
                              before[n - k + j][2], before[n - k + j][3], FALSE>>

\* C24: in every reachable state the flattened list has exactly one match
\* line per filtered segment, in filtered order, with the segment's text and
\* with original_start and original_end equal to the segment's start and end;
\* at depth 0 the list consists of these match lines only.
C24_OneMatchLinePerSegment ==
    /\ Len(MatchesOf(flat_results)) = Len(filtered_results)
    /\ \A r \in 1..Len(filtered_results) :
           /\ MatchesOf(flat_results)[r].text = filtered_results[r].text
           /\ MatchesOf(flat_results)[r].original_start = filtered_results[r].start_time
           /\ MatchesOf(flat_results)[r].original_end = filtered_results[r].end_time
    /\ context_lines = 0 =>
           /\ Len(flat_results) = Len(filtered_results)
           /\ \A i \in 1..Len(flat_results) : flat_results[i].is_match

\* A list of two matches with a context line between or after them, one of
\* the matches edited.
C24_Witness ==
    /\ Len(filtered_results) = 2
    /\ Len(flat_results) > 2
    /\ \E i \in 1..Len(flat_results) :
           flat_results[i].is_match /\ IsEdited(flat_results[i])

\* The s-th segment the index holds for file f.
SegmentOf(f, s) == SelectSeq(all_results, LAMBDA r : r.file_path = f)[s]

\* The resolved text lines of a file before, and after, line k.
ResolvedBefore(lines, k) == SelectSeq(ResolvedTextLines(lines), LAMBDA j : j < k)
ResolvedAfter(lines, k) == SelectSeq(ResolvedTextLines(lines), LAMBDA j : j > k)

LastUpTo(seq, n) ==
    IF Len(seq) <= n THEN seq ELSE SubSeq(seq, Len(seq) - n + 1, Len(seq))
FirstUpTo(seq, n) == IF Len(seq) <= n THEN seq ELSE SubSeq(seq, 1, n)

InSeq(x, seq) == \E k \in 1..Len(seq) : seq[k] = x

\* C25 as stated: every stored context_before entry of the text line at
\* line i comes from one of the lines i-5..i-1 and every context_after entry
\* from one of the lines i+1..i+5, each list holds at most 5 entries, and each
\* entry has the range of the nearest timing line before its own line.
C25_ContextWindow ==
    \A f \in 1..Len(vtt_files) :
        \A s \in 1..Len(ResolvedTextLines(vtt_files[f])) :
            LET lines == vtt_files[f]
                i == ResolvedTextLines(lines)[s]
                near_before == SelectSeq(ResolvedBefore(lines, i), LAMBDA j : j >= i - 5)
                near_after == SelectSeq(ResolvedAfter(lines, i), LAMBDA j : j <= i + 5)
            IN  /\ Len(SegmentOf(f, s).context_before) <= 5
                /\ Len(SegmentOf(f, s).context_after) <= 5
                /\ \A c \in 1..Len(SegmentOf(f, s).context_before) :
                       InSeq(SegmentOf(f, s).context_before[c], Timed(lines, near_before))
                /\ \A c \in 1..Len(SegmentOf(f, s).context_after) :
                       InSeq(SegmentOf(f, s).context_after[c], Timed(lines, near_after))

\* C25: the stored context_before of a text line is, in file order, the up
\* to 5 nearest text lines before it that have a parsable nearest preceding
\* timing line, and context_after the up to 5 nearest such lines after it,
\* however many timing, blank or unresolved lines lie between; each entry has
\* the range of the nearest timing line before its own line.
C25_ContextCapture ==
    \A f \in 1..Len(vtt_files) :
        LET resolved == Timed(vtt_files[f], ResolvedTextLines(vtt_files[f]))
        IN  \A s \in 1..Len(resolved) :
                /\ SegmentOf(f, s).context_before =
                       LastUpTo(SubSeq(resolved, 1, s - 1), 5)
                /\ SegmentOf(f, s).context_after =
                       FirstUpTo(SubSeq(resolved, s + 1, Len(resolved)), 5)

\* The file of seven text lines: the last has five context-before entries,
\* the first of them from another block nine lines up, and the first text
\* line has five context-after entries out of six text lines after it.
C25_Witness ==
    /\ vtt_files = <<FileMany>>
    /\ Len(all_results) = 7
    /\ Len(all_results[7].context_before) = 5
    /\ all_results[7].context_before[1] = <<<<"B">>, 0, 20>>
    /\ Len(all_results[1].context_after) = 5
    /\ all_results[1].context_after[1][2] = 0
    /\ all_results[1].context_after[5][2] = 60

\* The change each key makes, as the claim lists them (ms).
KeyStartChange(key) ==
    CASE key = "," -> -100 [] key = "." -> 100
      [] key = "<" -> -25  [] key = ">" -> 25
      [] OTHER -> 0
KeyEndChange(key) ==
    CASE key = "[" -> -100 [] key = "]" -> 100
      [] key = "{" -> -25  [] key = "}" -> 25
      [] OTHER -> 0

\* C26: each of the eight timestamp keys, when its adjustment is accepted,
\* changes exactly one field of the selected line by exactly its preset:
\* ',' '.' '[' ']' by 100 ms and '<' '>' '{' '}' by 25 ms; ',' and '<'
\* decrease start, '.' and '>' increase start, '[' and '{' decrease end, ']'
\* and '}' increase end.
C26_AdjustmentKeys ==
    [][ \A key \in AdjustKeys :
            (AdjustTime(key) /\ flat_results' # flat_results) =>
                /\ SelValid
                /\ OthersUnchanged
                /\ flat_results'[Unwrap(selected_idx) + 1] =
                       [Sel EXCEPT !.start_time = Sel.start_time + KeyStartChange(key),
                                   !.end_time = Sel.end_time + KeyEndChange(key)]
      ]_vars

\* A line moved by one normal step at its start and one fine step at its end.
C26_Witness ==
    /\ SelValid
    /\ Sel.start_time = Sel.original_start + 100
    /\ Sel.end_time = Sel.original_end - 25
    /\ status_message \in {MsgStartAdjusted, MsgEndAdjusted}

\* C27: in every reachable state the selection is None exactly when the
\* flattened list is empty, and is otherwise an index smaller than the length
\* of the list, in particular after '-' shrinks the list while a line near its
\* end is selected.
C27_SelectionValid ==
    /\ (selected_idx = None) <=> (flat_results = <<>>)
    /\ IsSome(selected_idx) => Unwrap(selected_idx) < Len(flat_results)

\* Every segment of the index passes the query.
EverySegmentPasses ==
    \/ is_empty(search_query)
    \/ \A i \in 1..Len(all_results) : matches_query(search_query, all_results[i].text)

NoContextLine(flat) == \A i \in 1..Len(flat) : flat[i].is_match

\* C28: every stored context entry equals (text, start, end) of some segment
\* parsed from the same file; so with an empty query, or any query that every
\* segment passes, the flattened list contains no context line at any depth
\* 0..5 and is identical to the list at depth 0.
C28_ContextLinesAreSegments ==
    /\ \A f \in 1..Len(vtt_files) :
           LET segments == SegmentsOf(f)
           IN  \A i \in 1..Len(all_results) :
                   all_results[i].file_path = f =>
                       /\ \A k \in 1..Len(all_results[i].context_before) :
                              InSeq(all_results[i].context_before[k], segments)
                       /\ \A k \in 1..Len(all_results[i].context_after) :
                              InSeq(all_results[i].context_after[k], segments)
    /\ EverySegmentPasses =>
           /\ NoContextLine(flat_results)
           /\ \A depth \in 0..5 :
                  /\ NoContextLine(AtDepth(depth))
                  /\ AtDepth(depth) = AtDepth(0)

\* A query that is not empty passes every one of three or more segments that
\* carry context, and the list is shown at the greatest depth.
C28_Witness ==
    /\ ~is_empty(search_query)
    /\ EverySegmentPasses
    /\ context_lines = 5
    /\ status_message = MsgFound
    /\ Len(all_results) >= 3
    /\ \A i \in 1..Len(all_results) :
           all_results[i].context_before # <<>> \/ all_results[i].context_after # <<>>
    /\ Len(flat_results) = Len(all_results)

\* The line was flattened with its end after its start.
FlattenedValid(line) == line.original_end > line.original_start

Accepted(r) == r.flat_results # flat_results

\* C29: a line whose end is greater than its start when the list is
\* flattened keeps end > start after any sequence of adjustStart, adjustEnd and
\* reset; after any accepted adjustment end - start >= 10 ms; hence on such a
\* line preview and extract never fail with the invalid-time-range error.
C29_EditingKeepsRangeValid ==
    /\ \A i \in 1..Len(flat_results) :
           FlattenedValid(flat_results[i]) =>
               /\ flat_results[i].end_time > flat_results[i].start_time
               /\ IsEdited(flat_results[i]) =>
                      flat_results[i].end_time - flat_results[i].start_time >= 10
               /\ \A wav_exists \in BOOLEAN, tool_ok \in BOOLEAN :
                      /\ preview_flat_line(flat_results, i - 1, wav_exists, tool_ok)
                             # ErrInvalidRange
                      /\ extract_flat_line(flat_results, i - 1, wav_exists, tool_ok)
                             # ErrInvalidRange
    /\ SelValid =>
           \A d \in Deltas :
               /\ Accepted(StartCall(d)) =>
                      SelOf(StartCall(d)).end_time - SelOf(StartCall(d)).start_time >= 10
               /\ Accepted(EndCall(d)) =>
                      SelOf(EndCall(d)).end_time - SelOf(EndCall(d)).start_time >= 10
               /\ FlattenedValid(Sel) =>
                      SelOf(ResetCall).end_time > SelOf(ResetCall).start_time

\* A line flattened with a valid range was moved at both ends, and a further
\* step at either end is refused.
C29_Witness ==
    /\ SelValid
    /\ FlattenedValid(Sel)
    /\ Sel.start_time > Sel.original_start
    /\ Sel.end_time < Sel.original_end
    /\ StartCall(25).status_message = MsgStartExceedsEnd
    /\ EndCall(-25).status_message = MsgEndPrecedesStart

\* C30: immediately after every character-typed or backspace command,
\* backspace on an empty query included, the selection is the first line of
\* the flattened list when the list is non-empty and None when it is empty,
\* whatever the selection was before; '+' and '-' never change the selection
\* index.
C30_SelectionAfterRefilter ==
    [][ /\ ((\E c \in KeyChars : TypeChar(c, MaxQueryLen)) \/ Backspace) =>
               selected_idx' = IF flat_results' = <<>> THEN None ELSE Some(0)
        /\ (ContextPlus \/ ContextMinus) => selected_idx' = selected_idx
      ]_vars

\* A refilter at a depth above 0 has left the selection on the first line of
\* the list, a context line that precedes the first match.
C30_Witness ==
    /\ status_message = MsgFound
    /\ ~is_empty(search_query)
    /\ context_lines >= 1
    /\ Len(flat_results) >= 2
    /\ ~flat_results[1].is_match
    /\ selected_idx = Some(0)

\* The selected line is the last line of the list.
SelIsLast == SelValid /\ Unwrap(selected_idx) = Len(flat_results) - 1

\* C31: on the last line of the flattened list an end increase by a preset
\* step (25 or 100 ms) is never rejected for exceeding the maximum, however
\* far the end already is beyond original_end + 30000 ms: the call either
\* moves the end by the step or is refused because the end would precede
\* start + 10 ms; and the key pressed there never leaves the maximum message.
C31_LastLineCeilingRelative ==
    /\ [](SelIsLast =>
            \A d \in {25, 100} :
                /\ EndCall(d).status_message # MsgEndExceedsMaximum
                /\ Sel.end_time + d >= Sel.start_time + 10 =>
                       SelOf(EndCall(d)).end_time = Sel.end_time + d)
    /\ [][ (SelIsLast /\ \E key \in {"]", "}"} : AdjustEnd(key, MaxCeilingStretch)) =>
               status_message' # MsgEndExceedsMaximum ]_vars

\* Repeated increases have moved the end of the last line more than 100 ms
\* beyond original_end + 30000 ms, and the last of them was accepted.
C31_Witness ==
    /\ SelIsLast
    /\ status_message = MsgEndAdjusted
    /\ Sel.end_time > Sel.original_end + 30000 + 100

====
